---- MODULE Spec2Model ----
(***************************************************************************)
(* The background job scheduler of the worker-service crate: the jobs      *)
(* table as JobRepository reads and writes it, the worker loops spawned by *)
(* JobScheduler::start, the executor's timeout race around the processor,  *)
(* and the scheduler's start/shutdown.                                     *)
(***************************************************************************)
EXTENDS Integers, Sequences, FiniteSets, TLC

(***************************************************************************)
(* Bounds of the model.                                                    *)
(***************************************************************************)
\* rows of the jobs table
NumJobs == 2
\* config.worker.worker_threads given to JobScheduler::new
WorkerThreads == 2
\* largest config.worker.batch_size, the LIMIT of the poll query
MaxBatch == 2
\* calls of start() on one scheduler
MaxStarts == 2
\* largest max_attempts retry_with_backoff is called with
MaxAttempts == 3
\* largest max_retries a job row is created with
MaxRetries == 1
\* last instant of the store's clock NOW()
MaxTime == 1
\* longest scheduler.cron_jobs list of a configuration
MaxCronJobs == 1

JobIds == 1..NumJobs
Workers == 1..WorkerThreads
AuxTasks == {"cron", "cleanup"}

\* an unset Option<DateTime>, Option<Value>, Option<String>
NoTime == -1
NoValue == "null"

\* shared::constants::jobs; sync_data has no arm in DefaultProcessor::process
JobTypes == {"send_email", "sync_data"}
\* the job_types lists a pool is configured with ("*" is main's default)
AllowLists == {{"*"}, {"send_email"}}

Min(a, b) == IF a <= b THEN a ELSE b

VARIABLES
    jobs,       \* the jobs table: id -> row
    now,        \* the store's clock, NOW()
    running,    \* JobScheduler.running, the shared flag
    job_types,  \* config.worker.job_types of this pool
    batch_size, \* config.worker.batch_size of this pool
    phase,      \* where main is: new, started, stopping, stopped
    pc,         \* each worker loop's position
    batch,      \* each worker's `jobs` still to iterate (rows as polled)
    cur,        \* each worker's `job` of the current iteration
    outcome,    \* each worker's result of executor.execute
    aux,        \* the cron scheduler's and the cleanup task's position
    attempts,   \* history: processor invocations per job
    skipped,    \* history: jobs some worker skipped by the type filter
    polled_empty, \* history: some worker's poll returned no rows
    worker_threads, \* config.worker.worker_threads of this pool
    cfg,        \* a WorkerConfig value handed to validate or to the type filter
    ret,        \* what the last such call returned
    retry       \* a call of retry_with_backoff: its locals and what it did

vars == <<jobs, now, running, job_types, batch_size, phase, pc, batch, cur, outcome, aux,
          attempts, skipped, polled_empty, worker_threads, cfg, ret, retry>>

NoJob == [id |-> 0]
NoOutcome == [kind |-> "none"]

(***************************************************************************)
(* The jobs table and JobRepository.                                       *)
(***************************************************************************)
\* a row as a producer inserts it: Pending, nothing run yet
NewJob(j, ty, mr, sa) ==
    [id |-> j, job_type |-> ty, status |-> "pending", result |-> NoValue,
     error |-> NoValue, retry_count |-> 0, max_retries |-> mr,
     scheduled_at |-> sa, started_at |-> NoTime, completed_at |-> NoTime,
     created_at |-> j - NumJobs]

\* the poll query with the scheduled_at condition left out
EligibleAnyTime(js, t) == {j \in JobIds : js[j].status = "pending"}

\* WHERE status = 'pending' AND scheduled_at <= NOW()
Eligible(js, t) ==
    {j \in JobIds : js[j].status = "pending" /\ js[j].scheduled_at <= t}

\* ORDER BY created_at ASC
RECURSIVE OrderByCreatedAt(_, _)
OrderByCreatedAt(js, S) ==
    IF S = {} THEN <<>>
    ELSE LET j == CHOOSE x \in S : \A y \in S : js[x].created_at <= js[y].created_at
         IN  <<js[j]>> \o OrderByCreatedAt(js, S \ {j})

\* LIMIT $1
Limit(s, n) == SubSeq(s, 1, Min(n, Len(s)))

\* the poll query with the status condition left out
find_pending_any_status(js, t, limit) ==
    Limit(OrderByCreatedAt(js, {j \in JobIds : js[j].scheduled_at <= t}), limit)

\* a plain SELECT: the rows are returned, none is changed
find_pending(js, t, limit) == Limit(OrderByCreatedAt(js, Eligible(js, t)), limit)

\* UPDATE jobs SET status = $2 WHERE id = $1
update_status(js, j, st) == [js EXCEPT ![j].status = st]

\* UPDATE jobs SET status = 'running', started_at = NOW() WHERE id = $1
mark_started(js, j, t) ==
    [js EXCEPT ![j].status = "running", ![j].started_at = t]

\* mark_completed with the result column left out of the UPDATE
mark_completed_no_result(js, j, res, t) ==
    [js EXCEPT ![j].status = "completed", ![j].completed_at = t]

\* UPDATE jobs SET status = 'completed', result = $2, completed_at = NOW()
mark_completed(js, j, res, t) ==
    [js EXCEPT ![j].status = "completed", ![j].result = res,
               ![j].completed_at = t]

\* mark_failed with the error column left out of the UPDATE
mark_failed_no_error(js, j, err, t) ==
    [js EXCEPT ![j].status = "failed", ![j].retry_count = @ + 1,
               ![j].completed_at = t]

\* UPDATE jobs SET status = 'failed', error = $2,
\*   retry_count = retry_count + 1, completed_at = NOW()
mark_failed(js, j, err, t) ==
    [js EXCEPT ![j].status = "failed", ![j].error = err,
               ![j].retry_count = @ + 1, ![j].completed_at = t]

(***************************************************************************)
(* Configuration, processor and executor.                                  *)
(***************************************************************************)
\* the filter without the wildcard
should_process_listed(types, ty) == ty \in types

\* the filter answering yes for any configured list
should_process_any(types, ty) == types # {}

\* job_types contains "*" or the type itself
should_process_job_type(types, ty) == "*" \in types \/ ty \in types

\* a processor that answers for a type it has no arm for
process_any_type(ty) == [kind |-> "ok", value |-> "done"]

\* DefaultProcessor::process: one arm per known type, an error otherwise
process(ty) ==
    CASE ty = "send_email"      -> [kind |-> "ok", value |-> "sent"]
      [] ty = "process_payment" -> [kind |-> "ok", value |-> "processed"]
      [] ty = "generate_report" -> [kind |-> "ok", value |-> "generated"]
      [] ty = "cleanup_data"    -> [kind |-> "ok", value |-> "cleaned"]
      [] OTHER -> [kind |-> "err", value |-> "Unknown job type"]

\* the known arms sleep, so the deadline can elapse first; the unknown arm
\* returns at its first poll, before the timer is looked at
CanTimeOut(ty) == process(ty).kind = "ok"

\* execute handing on what the abandoned processor returns after the deadline
execute_keeps_result(ty, elapsed) ==
    IF elapsed THEN [kind |-> "timeout", value |-> process(ty).value]
    ELSE process(ty)

\* JobExecutor::execute: the processor raced against the timeout
execute(ty, elapsed) ==
    IF elapsed THEN [kind |-> "timeout", value |-> "Job execution timed out"]
    ELSE process(ty)

(***************************************************************************)
(* AppConfig, WorkerConfig and their validation.                           *)
(***************************************************************************)
\* error and success of a Result<(), String>
Err(msg) == [kind |-> "err", value |-> msg]
Ok == [kind |-> "ok"]

\* AppConfig as its validate reads it: whether Url::parse accepts the two
\* urls, the number of kafka brokers, jwt_secret.len(), server.port
AppConfigs ==
    [database_url_ok : BOOLEAN, redis_url_ok : BOOLEAN, kafka_brokers : 0..1,
     jwt_secret_len : {15, 32}, server_port : {0, 8080}]

\* AppConfig::default(): jwt_secret is "your-secret-key", 15 characters
DefaultAppConfig ==
    [database_url_ok |-> TRUE, redis_url_ok |-> TRUE, kafka_brokers |-> 1,
     jwt_secret_len |-> 15, server_port |-> 8080]

\* an AppConfig main has loaded and found valid
LoadedAppConfig == [DefaultAppConfig EXCEPT !.jwt_secret_len = 32]

\* ValidateConfig for AppConfig
app_validate(app) ==
    IF ~app.database_url_ok THEN Err("Invalid database URL")
    ELSE IF ~app.redis_url_ok THEN Err("Invalid Redis URL")
    ELSE IF app.kafka_brokers = 0 THEN Err("Kafka brokers cannot be empty")
    ELSE IF app.jwt_secret_len < 32 THEN Err("JWT secret must be at least 32 characters")
    ELSE IF app.server_port = 0 THEN Err("Server port cannot be 0")
    ELSE Ok

\* a CronJobConfig: its enabled flag, and whether cron::Schedule parses it
CronJobConfigs == [enabled : BOOLEAN, cron_ok : BOOLEAN]

\* WorkerSettings::default(), worker_threads being the machine's parallelism
DefaultWorkerSettings(n) ==
    [worker_threads |-> n, poll_interval |-> 5, batch_size |-> 10,
     job_timeout |-> 300, max_retries |-> 3, retry_delay |-> 60,
     job_types |-> {"*"}, enable_cron |-> TRUE, cron_jobs |-> <<>>]

\* WorkerConfig::default()
DefaultWorkerConfig(n) == [app |-> DefaultAppConfig, worker |-> DefaultWorkerSettings(n)]

\* the WorkerConfig JobScheduler::new builds: worker_threads and job_types
\* as given, every other setting the default
new(app, threads, types) ==
    [app |-> app,
     worker |-> [DefaultWorkerSettings(threads) EXCEPT !.job_types = types]]

\* the scheduler's enable_cron: never set but by the default
enable_cron == new(LoadedAppConfig, 1, {"*"}).worker.enable_cron

\* WorkerConfig::job_timeout_duration, in seconds
job_timeout_duration(c) == c.worker.job_timeout

\* the job types that have a JobDefinition, and the timeout each declares
\* (EmailJob keeps the trait's default)
DefinedJobTypes == {"send_email", "process_payment", "generate_report"}
timeout(ty) ==
    CASE ty = "process_payment" -> 600
      [] ty = "generate_report" -> 1800
      [] ty = "send_email"      -> 300

\* validate with the poll interval test left out
validate_no_poll_interval(c) ==
    IF app_validate(c.app).kind = "err" THEN app_validate(c.app)
    ELSE IF c.worker.worker_threads = 0 THEN Err("Worker threads cannot be zero")
    ELSE IF c.worker.batch_size = 0 THEN Err("Batch size cannot be zero")
    ELSE IF c.worker.job_timeout = 0 THEN Err("Job timeout cannot be zero")
    ELSE IF \E i \in 1..Len(c.worker.cron_jobs) :
               c.worker.cron_jobs[i].enabled /\ ~c.worker.cron_jobs[i].cron_ok
         THEN Err("Invalid cron expression")
    ELSE Ok

\* WorkerConfig::validate
validate(c) ==
    IF app_validate(c.app).kind = "err" THEN app_validate(c.app)
    ELSE IF c.worker.worker_threads = 0 THEN Err("Worker threads cannot be zero")
    ELSE IF c.worker.batch_size = 0 THEN Err("Batch size cannot be zero")
    ELSE IF c.worker.job_timeout = 0 THEN Err("Job timeout cannot be zero")
    ELSE IF c.worker.poll_interval = 0 THEN Err("Poll interval cannot be zero")
    ELSE IF \E i \in 1..Len(c.worker.cron_jobs) :
               c.worker.cron_jobs[i].enabled /\ ~c.worker.cron_jobs[i].cron_ok
         THEN Err("Invalid cron expression")
    ELSE Ok

(***************************************************************************)
(* Initial state: the scheduler constructed, some rows in the table.       *)
(***************************************************************************)
Constructed(Types, Retries, Scheds, Lists, Sizes, Threads) ==
    /\ \E ty \in [JobIds -> Types], mr \in [JobIds -> Retries],
          sa \in [JobIds -> Scheds] :
          jobs = [j \in JobIds |-> NewJob(j, ty[j], mr[j], sa[j])]
    /\ now = 0
    /\ running = FALSE
    /\ job_types \in Lists
    /\ batch_size \in Sizes
    /\ phase = "new"
    /\ pc = [w \in Workers |-> "none"]
    /\ batch = [w \in Workers |-> <<>>]
    /\ cur = [w \in Workers |-> NoJob]
    /\ outcome = [w \in Workers |-> NoOutcome]
    /\ aux = [t \in AuxTasks |-> "none"]
    /\ attempts = [j \in JobIds |-> 0]
    /\ skipped = {}
    /\ polled_empty = FALSE
    /\ worker_threads \in Threads

\* no call of retry_with_backoff made
NoRetry == [pc |-> "idle"]

\* no call of validate or of the filter made yet
NoCall == [fn |-> "none"]

InitWith(Types, Retries, Scheds, Lists, Sizes) ==
    /\ Constructed(Types, Retries, Scheds, Lists, Sizes, {WorkerThreads})
    /\ cfg = DefaultWorkerConfig(WorkerThreads)
    /\ ret = NoCall
    /\ retry = NoRetry

Init == InitWith(JobTypes, 0..MaxRetries, 0..MaxTime, AllowLists, 1..MaxBatch)

(***************************************************************************)
(* JobScheduler::start and JobScheduler::shutdown.                         *)
(***************************************************************************)
\* the WorkerConfig this scheduler holds
config == new(LoadedAppConfig, worker_threads, job_types)

\* start() spawning the worker loops only
StartWorkersOnly ==
    /\ phase = "new"
    /\ running' = TRUE
    /\ pc' = [w \in Workers |-> IF w <= worker_threads THEN "check" ELSE "none"]
    /\ phase' = "started"
    /\ UNCHANGED <<jobs, now, job_types, batch_size, batch, cur, outcome, aux, attempts,
                   skipped, polled_empty, worker_threads, cfg, ret, retry>>

Start ==
    /\ phase = "new"
    /\ running' = TRUE
    /\ pc' = [w \in Workers |-> IF w <= worker_threads THEN "check" ELSE "none"]
    /\ aux' = [t \in AuxTasks |->
                 IF t = "cron" /\ ~enable_cron THEN "none" ELSE "run"]
    /\ phase' = "started"
    /\ UNCHANGED <<jobs, now, job_types, batch_size, batch, cur, outcome, attempts, skipped, polled_empty, worker_threads, cfg, ret, retry>>

\* shutdown, first half: the flag is written
ShutdownFlag ==
    /\ phase = "started"
    /\ running' = FALSE
    /\ phase' = "stopping"
    /\ UNCHANGED <<jobs, now, job_types, batch_size, pc, batch, cur, outcome, aux, attempts,
                   skipped, polled_empty, worker_threads, cfg, ret, retry>>

\* abort that lets a worker holding a job finish it
AbortIdle(p) == IF p \in {"none", "stopped", "exec", "write"} THEN p ELSE "aborted"

\* JoinHandle::abort on a task: it is cancelled where it awaits
Abort(p) == IF p \in {"none", "stopped"} THEN p ELSE "aborted"

\* shutdown returning without a call of abort
ShutdownNoAbort ==
    /\ phase = "stopping"
    /\ phase' = "stopped"
    /\ UNCHANGED <<jobs, now, running, job_types, batch_size, pc, batch, cur, outcome, aux,
                   attempts, skipped, polled_empty, worker_threads, cfg, ret, retry>>

\* shutdown, second half: every handle is aborted
ShutdownAbort ==
    /\ phase = "stopping"
    /\ pc' = [w \in DOMAIN pc |-> Abort(pc[w])]
    /\ aux' = [t \in AuxTasks |-> Abort(aux[t])]
    /\ phase' = "stopped"
    /\ UNCHANGED <<jobs, now, running, job_types, batch_size, batch, cur, outcome, attempts,
                   skipped, polled_empty, worker_threads, cfg, ret, retry>>

(***************************************************************************)
(* The worker loop of spawn_worker.                                        *)
(***************************************************************************)
\* where the loop goes once the rest of the batch is `rest`
AfterJob(rest) == IF rest = <<>> THEN "check" ELSE "loop"

CheckRunning(w) ==
    /\ pc[w] = "check"
    /\ pc' = [pc EXCEPT ![w] = IF running THEN "poll" ELSE "stopped"]
    /\ UNCHANGED <<jobs, now, running, job_types, batch_size, phase, batch, cur, outcome,
                   aux, attempts, skipped, polled_empty, worker_threads, cfg, ret, retry>>

\* poll_interval.tick(), then find_pending answers
Poll(w) ==
    /\ pc[w] = "poll"
    /\ LET got == find_pending(jobs, now, batch_size) IN
         /\ batch' = [batch EXCEPT ![w] = got]
         /\ pc' = [pc EXCEPT ![w] = AfterJob(got)]
         /\ polled_empty' = (polled_empty \/ got = <<>>)
    /\ UNCHANGED <<jobs, now, running, job_types, batch_size, phase, cur, outcome, aux,
                   attempts, skipped, worker_threads, cfg, ret, retry>>

\* find_pending fails: log, then sleep 5 s
PollFail(w) ==
    /\ pc[w] = "poll"
    /\ pc' = [pc EXCEPT ![w] = "backoff"]
    /\ UNCHANGED <<jobs, now, running, job_types, batch_size, phase, batch, cur, outcome,
                   aux, attempts, skipped, polled_empty, worker_threads, cfg, ret, retry>>

\* the worker task ending after the failed poll
BackoffExit(w) ==
    /\ pc[w] = "backoff"
    /\ pc' = [pc EXCEPT ![w] = "stopped"]
    /\ UNCHANGED <<jobs, now, running, job_types, batch_size, phase, batch, cur, outcome,
                   aux, attempts, skipped, polled_empty, worker_threads, cfg, ret, retry>>

\* the 5 s sleep ends: the loop starts over
Backoff(w) ==
    /\ pc[w] = "backoff"
    /\ pc' = [pc EXCEPT ![w] = "check"]
    /\ UNCHANGED <<jobs, now, running, job_types, batch_size, phase, batch, cur, outcome,
                   aux, attempts, skipped, polled_empty, worker_threads, cfg, ret, retry>>

\* the type filter says no: continue
SkipJob(w) ==
    /\ pc[w] = "loop"
    /\ LET job == Head(batch[w]) IN
         /\ ~should_process_job_type(job_types, job.job_type)
         /\ skipped' = skipped \cup {job.id}
    /\ batch' = [batch EXCEPT ![w] = Tail(batch[w])]
    /\ pc' = [pc EXCEPT ![w] = AfterJob(Tail(batch[w]))]
    /\ UNCHANGED <<jobs, now, running, job_types, batch_size, phase, cur, outcome, aux,
                   attempts, polled_empty, worker_threads, cfg, ret, retry>>

\* the loop taking the last row of the batch first
MarkStartedLast(w) ==
    /\ pc[w] = "loop"
    /\ LET job == batch[w][Len(batch[w])] IN
         /\ should_process_job_type(job_types, job.job_type)
         /\ jobs' = mark_started(jobs, job.id, now)
         /\ cur' = [cur EXCEPT ![w] = job]
    /\ batch' = [batch EXCEPT ![w] = SubSeq(batch[w], 1, Len(batch[w]) - 1)]
    /\ pc' = [pc EXCEPT ![w] = "exec"]
    /\ UNCHANGED <<now, running, job_types, batch_size, phase, outcome, aux, attempts,
                   skipped, polled_empty, worker_threads, cfg, ret, retry>>

\* mark_started succeeds: the executor is entered
MarkStarted(w) ==
    /\ pc[w] = "loop"
    /\ LET job == Head(batch[w]) IN
         /\ should_process_job_type(job_types, job.job_type)
         /\ jobs' = mark_started(jobs, job.id, now)
         /\ cur' = [cur EXCEPT ![w] = job]
    /\ batch' = [batch EXCEPT ![w] = Tail(batch[w])]
    /\ pc' = [pc EXCEPT ![w] = "exec"]
    /\ UNCHANGED <<now, running, job_types, batch_size, phase, outcome, aux, attempts,
                   skipped, polled_empty, worker_threads, cfg, ret, retry>>

\* the worker running the job although mark_started failed
MarkStartedFailExecutes(w) ==
    /\ pc[w] = "loop"
    /\ should_process_job_type(job_types, Head(batch[w]).job_type)
    /\ cur' = [cur EXCEPT ![w] = Head(batch[w])]
    /\ batch' = [batch EXCEPT ![w] = Tail(batch[w])]
    /\ pc' = [pc EXCEPT ![w] = "exec"]
    /\ UNCHANGED <<jobs, now, running, job_types, batch_size, phase, outcome, aux,
                   attempts, skipped, polled_empty, worker_threads, cfg, ret, retry>>

\* mark_started fails: log, continue
MarkStartedFail(w) ==
    /\ pc[w] = "loop"
    /\ should_process_job_type(job_types, Head(batch[w]).job_type)
    /\ batch' = [batch EXCEPT ![w] = Tail(batch[w])]
    /\ pc' = [pc EXCEPT ![w] = AfterJob(Tail(batch[w]))]
    /\ UNCHANGED <<jobs, now, running, job_types, batch_size, phase, cur, outcome, aux,
                   attempts, skipped, polled_empty, worker_threads, cfg, ret, retry>>

\* executor.execute returns
Execute(w) ==
    /\ pc[w] = "exec"
    /\ \E elapsed \in {FALSE} \cup {CanTimeOut(cur[w].job_type)} :
         outcome' = [outcome EXCEPT ![w] = execute(cur[w].job_type, elapsed)]
    /\ attempts' = [attempts EXCEPT ![cur[w].id] = @ + 1]
    /\ pc' = [pc EXCEPT ![w] = "write"]
    /\ UNCHANGED <<jobs, now, running, job_types, batch_size, phase, batch, cur, aux,
                   skipped, polled_empty, worker_threads, cfg, ret, retry>>

\* the match writing the failure as well after the completion
WriteOutcomeBoth(js, job, out, t) ==
    IF out.kind = "ok"
    THEN mark_failed(mark_completed(js, job.id, out.value, t), job.id, out.value, t)
    ELSE IF job.retry_count < job.max_retries THEN js
    ELSE mark_failed(js, job.id, out.value, t)

\* the store write the outcome asks for (none on the retry branch)
WriteOutcome(js, job, out, t) ==
    IF out.kind = "ok" THEN mark_completed(js, job.id, out.value, t)
    ELSE IF job.retry_count < job.max_retries THEN js
    ELSE mark_failed(js, job.id, out.value, t)

\* the match on the executor's result, its store write succeeding
HandleOutcome(w) ==
    /\ pc[w] = "write"
    /\ jobs' = WriteOutcome(jobs, cur[w], outcome[w], now)
    /\ pc' = [pc EXCEPT ![w] = AfterJob(batch[w])]
    /\ cur' = [cur EXCEPT ![w] = NoJob]
    /\ outcome' = [outcome EXCEPT ![w] = NoOutcome]
    /\ UNCHANGED <<now, running, job_types, batch_size, phase, batch, aux, attempts, skipped, polled_empty, worker_threads, cfg, ret, retry>>

\* mark_completed or mark_failed fails: log, go on
HandleOutcomeFail(w) ==
    /\ pc[w] = "write"
    /\ outcome[w].kind = "ok" \/ cur[w].retry_count >= cur[w].max_retries
    /\ pc' = [pc EXCEPT ![w] = AfterJob(batch[w])]
    /\ cur' = [cur EXCEPT ![w] = NoJob]
    /\ outcome' = [outcome EXCEPT ![w] = NoOutcome]
    /\ UNCHANGED <<jobs, now, running, job_types, batch_size, phase, batch, aux, attempts,
                   skipped, polled_empty, worker_threads, cfg, ret, retry>>

(***************************************************************************)
(* The cron scheduler and the cleanup task: loops with an empty body.      *)
(***************************************************************************)
\* the running flag is read, the interval ticks, the body does nothing
AuxLoop(t) ==
    /\ aux[t] = "run"
    /\ aux' = [aux EXCEPT ![t] = IF running THEN "run" ELSE "stopped"]
    /\ UNCHANGED <<jobs, now, running, job_types, batch_size, phase, pc, batch,
                   cur, outcome, attempts, skipped, polled_empty, worker_threads, cfg, ret, retry>>

(***************************************************************************)
(* The environment: the clock, and an external cancellation.               *)
(***************************************************************************)
Advance ==
    /\ now < MaxTime
    /\ now' = now + 1
    /\ UNCHANGED <<jobs, running, job_types, batch_size, phase, pc, batch, cur, outcome, aux,
                   attempts, skipped, polled_empty, worker_threads, cfg, ret, retry>>

Cancel(j) ==
    /\ jobs[j].status \in {"pending", "running"}
    /\ jobs' = update_status(jobs, j, "cancelled")
    /\ UNCHANGED <<now, running, job_types, batch_size, phase, pc, batch, cur, outcome, aux,
                   attempts, skipped, polled_empty, worker_threads, cfg, ret, retry>>

WorkerStep(w) ==
    \/ CheckRunning(w)
    \/ Poll(w)
    \/ SkipJob(w)
    \/ MarkStarted(w)
    \/ Execute(w)
    \/ HandleOutcome(w)

\* a store operation of the worker fails
StoreFailure(w) ==
    \/ PollFail(w)
    \/ Backoff(w)
    \/ MarkStartedFail(w)
    \/ HandleOutcomeFail(w)

\* the scheduler started and left running, the store failing at will
Next ==
    \/ Start
    \/ \E w \in Workers : WorkerStep(w)
    \/ \E w \in Workers : StoreFailure(w)
    \/ \E t \in AuxTasks : AuxLoop(t)
    \/ Advance

Spec == Init /\ [][Next]_vars

\* the same, with a producer's client cancelling jobs
CancelNext ==
    \/ Next
    \/ \E j \in JobIds : Cancel(j)

CancelSpec == Init /\ [][CancelNext]_vars

\* main's whole run, start to shutdown, for a pool that takes send_email
LifeInit ==
    /\ Constructed(JobTypes, {0}, {0}, {{"send_email"}}, {1}, 0..WorkerThreads)
    /\ cfg = DefaultWorkerConfig(WorkerThreads)
    /\ ret = NoCall
    /\ retry = NoRetry

LifeNext ==
    \/ Next
    \/ ShutdownFlag
    \/ ShutdownAbort

\* shutdown(), once called, runs to its end
LifeFairness == WF_vars(ShutdownAbort)

LifeSpec == LifeInit /\ [][LifeNext]_vars /\ LifeFairness

\* unlimited poll cycles against a store that always answers: every task
\* the runtime holds is scheduled again and again, and time passes
LiveNext ==
    \/ Start
    \/ \E w \in Workers : WorkerStep(w)
    \/ \E t \in AuxTasks : AuxLoop(t)
    \/ Advance

Fairness ==
    /\ WF_vars(Start)
    /\ WF_vars(Advance)
    /\ \A w \in Workers : WF_vars(WorkerStep(w))

LiveSpec == Init /\ [][LiveNext]_vars /\ Fairness

\* a store operation of the worker returns Err
StoreError(w) ==
    \/ PollFail(w)
    \/ MarkStartedFail(w)
    \/ HandleOutcomeFail(w)

\* a pool that takes send_email with a batch that holds the whole table, jobs
\* without retries, the store failing at will; every task is scheduled again
\* and again and every sleep ends
TransientInit == InitWith(JobTypes, {0}, {0}, {{"send_email"}}, {NumJobs})

TransientFairness ==
    /\ Fairness
    /\ \A w \in Workers : WF_vars(Backoff(w))

TransientSpec == TransientInit /\ [][Next]_vars /\ TransientFairness

\* a table of send_email and process_payment jobs without retries, due at
\* once, polled one row at a time
DeadlineInit ==
    /\ Constructed({"send_email", "process_payment"}, {0}, {0}, AllowLists, {1},
                   {WorkerThreads})
    /\ cfg = DefaultWorkerConfig(WorkerThreads)
    /\ ret = NoCall
    /\ retry = NoRetry

DeadlineSpec == DeadlineInit /\ [][Next]_vars

(***************************************************************************)
(* WorkerConfig::validate and should_process_job_type called on a          *)
(* configuration, as the crate's tests call them.                          *)
(***************************************************************************)
\* the job types asked about, and the job_types lists configured
FilterTypes == {"send_email", "process_payment", "sync_data"}
FilterLists == {{"*"}, {"send_email"}, {"send_email", "process_payment"}, {}}

\* scheduler.cron_jobs: lists of up to MaxCronJobs definitions
CronLists == UNION {[1..n -> CronJobConfigs] : n \in 0..MaxCronJobs}

\* the configurations: every default one, and those with a zero or a
\* default value in each setting validate reads
WorkerConfigs ==
    {[app |-> a,
      worker |-> [DefaultWorkerSettings(n) EXCEPT
                     !.poll_interval = pi, !.batch_size = bs,
                     !.job_timeout = jt, !.job_types = ty, !.cron_jobs = cj]] :
        a \in AppConfigs, n \in 0..WorkerThreads, pi \in {0, 5}, bs \in {0, 10},
        jt \in {0, 300}, ty \in FilterLists, cj \in CronLists}

ConfigInit ==
    /\ Constructed({"send_email"}, {0}, {0}, {{"*"}}, {1}, {WorkerThreads})
    /\ cfg \in WorkerConfigs
    /\ ret = NoCall
    /\ retry = NoRetry

\* config.validate()
Validate ==
    /\ ret' = [fn |-> "validate", out |-> validate(cfg)]
    /\ UNCHANGED <<jobs, now, running, job_types, batch_size, phase, pc, batch, cur, outcome,
                   aux, attempts, skipped, polled_empty, worker_threads, cfg, retry>>

\* config.should_process_job_type(ty)
Filter(ty) ==
    /\ ret' = [fn |-> "should_process_job_type", job_type |-> ty,
               out |-> should_process_job_type(cfg.worker.job_types, ty)]
    /\ UNCHANGED <<jobs, now, running, job_types, batch_size, phase, pc, batch, cur, outcome,
                   aux, attempts, skipped, polled_empty, worker_threads, cfg, retry>>

ConfigNext ==
    \/ Validate
    \/ \E ty \in FilterTypes : Filter(ty)

ConfigSpec == ConfigInit /\ [][ConfigNext]_vars

(***************************************************************************)
(* The cleanup task of spawn_cleanup_task, step by step.                   *)
(***************************************************************************)
\* config.worker.scheduler.cleanup_after_days on the model's clock: the
\* whole span of the clock
cleanup_after == MaxTime

\* the head of the loop: the running flag is read
CleanupCheck ==
    /\ aux["cleanup"] \in {"run", "ran"}
    /\ aux' = [aux EXCEPT !["cleanup"] = IF running THEN "tick" ELSE "stopped"]
    /\ UNCHANGED <<jobs, now, running, job_types, batch_size, phase, pc, batch,
                   cur, outcome, attempts, skipped, polled_empty, worker_threads, cfg, ret, retry>>

\* a cleanup body that deletes a row that is not terminal
CleanupBodyDeleting ==
    /\ aux["cleanup"] = "tick"
    /\ aux' = [aux EXCEPT !["cleanup"] = "ran"]
    /\ \E j \in DOMAIN jobs :
         /\ jobs[j].status \notin {"completed", "failed", "cancelled"}
         /\ jobs' = [k \in DOMAIN jobs \ {j} |-> jobs[k]]
    /\ UNCHANGED <<now, running, job_types, batch_size, phase, pc, batch,
                   cur, outcome, attempts, skipped, polled_empty, worker_threads, cfg, ret, retry>>

\* cleanup_interval.tick() returns and the body runs: a log line, no store
\* call (the removal is a TODO)
CleanupBody ==
    /\ aux["cleanup"] = "tick"
    /\ aux' = [aux EXCEPT !["cleanup"] = "ran"]
    /\ UNCHANGED <<jobs, now, running, job_types, batch_size, phase, pc, batch,
                   cur, outcome, attempts, skipped, polled_empty, worker_threads, cfg, ret, retry>>

\* a pool whose batch holds the whole table, jobs without retries, due at
\* once, the store answering
CleanupInit == InitWith(JobTypes, {0}, {0}, AllowLists, {NumJobs})

CleanupNext ==
    \/ Start
    \/ \E w \in Workers : WorkerStep(w)
    \/ AuxLoop("cron")
    \/ CleanupCheck
    \/ CleanupBody
    \/ Advance

\* every task is scheduled again and again, the hourly interval ticks, and
\* time passes
CleanupFairness ==
    /\ Fairness
    /\ WF_vars(CleanupCheck)
    /\ WF_vars(CleanupBody)

CleanupSpec == CleanupInit /\ [][CleanupNext]_vars /\ CleanupFairness

(***************************************************************************)
(* start() and shutdown() as a caller of the public API may call them:     *)
(* start() again on a scheduler that was started before.                   *)
(***************************************************************************)
\* start() called again: it tests nothing, sets the flag, spawns
\* worker_threads more loops and pushes their handles after the old ones
\* (the spawned cron scheduler and cleanup task again have an empty body)
StartAgain ==
    /\ phase \in {"started", "stopped"}
    /\ Len(pc) + worker_threads <= WorkerThreads + (MaxStarts - 1) * worker_threads
    /\ running' = TRUE
    /\ pc' = pc \o [i \in 1..worker_threads |-> "check"]
    /\ batch' = batch \o [i \in 1..worker_threads |-> <<>>]
    /\ cur' = cur \o [i \in 1..worker_threads |-> NoJob]
    /\ outcome' = outcome \o [i \in 1..worker_threads |-> NoOutcome]
    /\ aux' = [t \in AuxTasks |->
                 IF t = "cron" /\ ~enable_cron THEN aux[t] ELSE "run"]
    /\ phase' = "started"
    /\ UNCHANGED <<jobs, now, job_types, batch_size, attempts, skipped, polled_empty,
                   worker_threads, cfg, ret, retry>>

\* a scheduler of one worker thread that takes send_email, one row a poll
ApiInit ==
    /\ Constructed(JobTypes, {0}, {0}, {{"send_email"}}, {1}, {1})
    /\ cfg = DefaultWorkerConfig(WorkerThreads)
    /\ ret = NoCall
    /\ retry = NoRetry

\* every loop some start() spawned takes its steps
ApiNext ==
    \/ Start
    \/ StartAgain
    \/ ShutdownFlag
    \/ ShutdownAbort
    \/ \E w \in DOMAIN pc : WorkerStep(w)
    \/ \E t \in AuxTasks : AuxLoop(t)
    \/ Advance

ApiSpec == ApiInit /\ [][ApiNext]_vars

(***************************************************************************)
(* shared::utils::retry_with_backoff, one await at a time.                 *)
(***************************************************************************)
\* last_error before any attempt failed
None == 0

\* the delays (ms) and the multipliers (in tenths) a caller passes
Delays == {100, 200}
MaxDelays == {150, 400}
Multipliers == {10, 15, 20}

\* min(Duration::from_millis((delay.as_millis() as f64 * m) as u64), max_delay)
next_delay(delay, max_delay, m10) == Min((delay * m10) \div 10, max_delay)

RetryRest == <<jobs, now, running, job_types, batch_size, phase, pc, batch, cur, outcome,
               aux, attempts, skipped, polled_empty, worker_threads, cfg, ret>>

\* the call: the locals are set and the for loop is entered
RetryCall ==
    /\ retry.pc = "idle"
    /\ \E n \in 0..MaxAttempts, d \in Delays, md \in MaxDelays, m \in Multipliers :
         retry' = [pc |-> "loop", max_attempts |-> n, max_delay |-> md,
                   backoff_multiplier |-> m, delay |-> d, last_error |-> None,
                   attempt |-> 1, calls |-> 0, sleeps |-> 0, slept_after |-> 0]
    /\ UNCHANGED RetryRest

\* operation().await: Ok returns at once; the error of attempt k is k
RetryOperation ==
    /\ retry.pc = "loop"
    /\ retry.attempt <= retry.max_attempts
    /\ \/ retry' = [retry EXCEPT !.pc = "returned", !.calls = @ + 1] @@
                   [out |-> [kind |-> "ok", value |-> retry.attempt]]
       \/ retry' = [retry EXCEPT
                      !.calls = @ + 1,
                      !.last_error = retry.attempt,
                      !.pc = IF retry.attempt < retry.max_attempts
                             THEN "sleep" ELSE "loop",
                      !.attempt = IF retry.attempt < retry.max_attempts
                                  THEN @ ELSE @ + 1]
    /\ UNCHANGED RetryRest

\* tokio::time::sleep(delay).await, then the next delay is computed
RetrySleep ==
    /\ retry.pc = "sleep"
    /\ retry' = [retry EXCEPT
                   !.pc = "loop",
                   !.sleeps = @ + 1,
                   !.slept_after = retry.attempt,
                   !.delay = next_delay(@, retry.max_delay, retry.backoff_multiplier),
                   !.attempt = @ + 1]
    /\ UNCHANGED RetryRest

\* the loop is over: Err(last_error.unwrap()), a panic when no attempt was made
RetryExit ==
    /\ retry.pc = "loop"
    /\ retry.attempt > retry.max_attempts
    /\ retry' = IF retry.last_error = None
                THEN [retry EXCEPT !.pc = "panicked"]
                ELSE [retry EXCEPT !.pc = "returned"] @@
                     [out |-> [kind |-> "err", value |-> retry.last_error]]
    /\ UNCHANGED RetryRest

RetryInit ==
    /\ Constructed({"send_email"}, {0}, {0}, {{"*"}}, {1}, {WorkerThreads})
    /\ cfg = DefaultWorkerConfig(WorkerThreads)
    /\ ret = NoCall
    /\ retry = NoRetry

RetryNext ==
    \/ RetryCall
    \/ RetryOperation
    \/ RetrySleep
    \/ RetryExit

RetrySpec == RetryInit /\ [][RetryNext]_vars

(***************************************************************************)
(* Properties.                                                             *)
(***************************************************************************)
Terminal == {"completed", "failed", "cancelled"}

\* C1: no job is executed by two workers at once: two workers that are both
\* inside executor.execute hold different jobs.
C1_MutualExclusion ==
    \A w1, w2 \in Workers :
        (w1 # w2 /\ pc[w1] = "exec" /\ pc[w2] = "exec") => cur[w1].id # cur[w2].id

\* C2: in every reachable state every job has retry_count <= max_retries.
C2_RetryCountBounded ==
    \A j \in JobIds : jobs[j].retry_count <= jobs[j].max_retries

\* C3: terminal states are absorbing: no step changes the status of a job
\* that is Completed, Failed or Cancelled.
C3_TerminalAbsorbing ==
    [][\A j \in JobIds :
          jobs[j].status \in Terminal => jobs'[j].status = jobs[j].status]_vars

\* C4: under fair scheduling and a store that always answers, every job whose
\* type the pool accepts eventually is Completed, Failed or Cancelled.
C4_AcceptedJobsTerminate ==
    \A j \in JobIds :
        <>(should_process_job_type(job_types, jobs[j].job_type)
             => jobs[j].status \in Terminal)

\* a worker holds the executor's timed-out result for job j
TimedOut(j) ==
    \E w \in Workers :
        pc[w] = "write" /\ cur[w].id = j /\ outcome[w].kind = "timeout"

\* the processor's own error for the same row: what a timeout is compared to
ProcessorError == [kind |-> "err", value |-> "Job execution timed out"]

\* C5: a timed-out job gets the same store write as a failed one, and after
\* the timeout it eventually is no longer Running.
C5_TimeoutHandledAsFailure ==
    /\ [](\A w \in Workers :
            (pc[w] = "write" /\ outcome[w].kind = "timeout") =>
                WriteOutcome(jobs, cur[w], outcome[w], now)
                    = WriteOutcome(jobs, cur[w], ProcessorError, now))
    /\ \A j \in JobIds : [](TimedOut(j) => <>(jobs[j].status # "running"))

\* the processor has no arm for the job's type: every attempt fails
AlwaysFails(j) == process(jobs[j].job_type).kind = "err"

\* C6: an accepted job whose processor always fails ends up Failed with
\* retry_count = max_retries after exactly max_retries + 1 invocations.
C6_FailsAfterAllRetries ==
    \A j \in JobIds :
        <>[]((AlwaysFails(j) /\ should_process_job_type(job_types, jobs[j].job_type))
               => /\ jobs[j].status = "failed"
                  /\ jobs[j].retry_count = jobs[j].max_retries
                  /\ attempts[j] = jobs[j].max_retries + 1)

Polled(w) == {batch[w][i].id : i \in 1..Len(batch[w])}

\* the rows the poll query selects from, written out
PendingAndDue == {j \in JobIds : jobs[j].status = "pending" /\ jobs[j].scheduled_at <= now}

\* C8: a poll returns min(batch_size, E) of the E eligible jobs, the oldest
\* ones in ascending created_at, and none that another worker's poll returned.
C8_ClaimBatches ==
    [][\A w \in Workers :
          (pc[w] = "poll" /\ pc'[w] \in {"loop", "check"})
          => LET got == batch'[w] IN
               /\ Len(got) = Min(batch_size, Cardinality(PendingAndDue))
               /\ \A i \in 1..Len(got) : got[i].id \in PendingAndDue
               /\ \A i, k \in 1..Len(got) :
                      i < k => got[i].created_at < got[k].created_at
               /\ \A i \in 1..Len(got) : \A j \in PendingAndDue :
                      j \notin {got[k].id : k \in 1..Len(got)}
                          => got[i].created_at < jobs[j].created_at
               /\ \A v \in Workers \ {w} : \A i \in 1..Len(got) :
                      got[i].id \notin Polled(v) /\ got[i].id # cur[v].id]_vars

\* C9: no polled row, no row being executed and no started job has a
\* scheduled_at later than the time it was polled, run or started at.
C9_NotBeforeScheduledAt ==
    /\ \A w \in Workers : \A i \in 1..Len(batch[w]) :
           batch[w][i].scheduled_at <= now
    /\ \A w \in Workers :
           pc[w] \in {"exec", "write"} => cur[w].scheduled_at <= now
    /\ \A j \in JobIds :
           /\ jobs[j].started_at # NoTime => jobs[j].scheduled_at <= jobs[j].started_at
           /\ attempts[j] > 0 => jobs[j].scheduled_at <= now

\* a poll with room left in its batch that left out a job not yet due
C9_Witness ==
    \E w \in Workers, j \in JobIds :
        /\ pc[w] = "loop"
        /\ Len(batch[w]) < batch_size
        /\ jobs[j].status = "pending"
        /\ jobs[j].scheduled_at > now
        /\ j \notin Polled(w)

\* C10: a job whose type the pool's job_types does not list (and no "*")
\* is never started or executed: its row stays as it was inserted.
C10_FilteredJobUntouched ==
    \A j \in JobIds :
        ("*" \notin job_types /\ jobs[j].job_type \notin job_types)
        => /\ jobs[j] = NewJob(j, jobs[j].job_type, jobs[j].max_retries,
                               jobs[j].scheduled_at)
           /\ attempts[j] = 0
           /\ \A w \in Workers : cur[w].id # j

\* a worker polled a job of a type outside the list and skipped it
C10_Witness ==
    \E j \in skipped :
        /\ "*" \notin job_types
        /\ jobs[j].job_type \notin job_types
        /\ jobs[j].status = "pending"

\* C11: a job a worker has skipped by the type filter was claimed and is not
\* unclaimed: in every reachable state every skipped job is Running.
C11_SkippedStaysRunning ==
    \A j \in skipped : jobs[j].status = "running"

\* C12: a poll that finds no pending job due returns an empty list and no
\* error, changes no row, and takes the worker back to the top of its loop.
C12_EmptyPoll ==
    [][\A w \in Workers :
          (pc[w] = "poll" /\ pc'[w] # "poll" /\ PendingAndDue = {})
          => /\ batch'[w] = <<>>
             /\ jobs' = jobs
             /\ pc'[w] = "check"
             /\ cur'[w] = NoJob]_vars

\* a poll has returned no rows and the worker is back at its next poll
C12_Witness ==
    /\ polled_empty
    /\ PendingAndDue = {}
    /\ \E w \in Workers : pc[w] = "poll" /\ batch[w] = <<>>

\* the edges of the job state machine: the worker's, and the external cancel
WorkerEdges ==
    {<<"pending", "running">>, <<"running", "completed">>,
     <<"running", "pending">>, <<"running", "failed">>}
CancelEdges == {<<"pending", "cancelled">>, <<"running", "cancelled">>}

\* C13: every step that changes a job's status takes an edge of the state
\* machine, under any interleaving of workers and external cancellation.
C13_StateMachineEdges ==
    [][\A j \in JobIds :
          jobs'[j].status # jobs[j].status
          => <<jobs[j].status, jobs'[j].status>> \in WorkerEdges \cup CancelEdges]_vars

\* C14: completed_at is unset in every non-terminal state, set in every
\* terminal state, and once set it is never written again.
C14_CompletedAtOnce ==
    /\ [](\A j \in JobIds :
            (jobs[j].status \in Terminal) <=> (jobs[j].completed_at # NoTime))
    /\ [][\A j \in JobIds :
            jobs[j].completed_at # NoTime
            => jobs'[j].completed_at = jobs[j].completed_at]_vars

\* C15: the poll is an atomic claim: every job it returns is, by that same
\* step, Running with started_at set, and in no other worker's hands.
C15_AtomicClaim ==
    [][\A w \in Workers :
          (pc[w] = "poll" /\ pc'[w] \in {"loop", "check"})
          => \A i \in 1..Len(batch'[w]) :
               LET j == batch'[w][i].id IN
                 /\ jobs[j].status = "pending"
                 /\ jobs'[j].status = "running"
                 /\ jobs'[j].started_at = now]_vars

\* C16: when the execution failed or timed out and retry_count < max_retries,
\* the worker's write raises retry_count by one, sets the status back to
\* Pending, moves scheduled_at forward and records the error.
C16_RetryRescheduled ==
    [][\A w \in Workers :
          (/\ pc[w] = "write"
           /\ pc'[w] # "write"
           /\ outcome[w].kind \in {"err", "timeout"}
           /\ cur[w].retry_count < cur[w].max_retries)
          => LET j == cur[w].id IN
               /\ jobs'[j].retry_count = jobs[j].retry_count + 1
               /\ jobs'[j].status = "pending"
               /\ jobs'[j].scheduled_at > jobs[j].scheduled_at
               /\ jobs'[j].error = outcome[w].value]_vars

\* C17: when the execution failed or timed out and retry_count >= max_retries,
\* the worker's write makes the job Failed, records the executor's error on it
\* and sets completed_at.
C17_FailedWhenRetriesExhausted ==
    [][\A w \in Workers :
          (/\ pc[w] = "write"
           /\ pc'[w] # "write"
           /\ outcome[w].kind \in {"err", "timeout"}
           /\ \/ cur[w].retry_count >= cur[w].max_retries
              \/ jobs[cur[w].id].retry_count >= jobs[cur[w].id].max_retries)
          => LET j == cur[w].id IN
               /\ jobs'[j].status = "failed"
               /\ jobs'[j].status \in Terminal
               /\ jobs'[j].error = outcome[w].value
               /\ jobs'[j].error # NoValue
               /\ jobs'[j].completed_at = now]_vars

\* a job with no retry left that timed out, and one whose processor failed,
\* each recorded as Failed with its error
C17_Witness ==
    /\ \E j \in JobIds :
          /\ jobs[j].status = "failed"
          /\ jobs[j].error = "Job execution timed out"
          /\ jobs[j].completed_at # NoTime
    /\ \E j \in JobIds :
          /\ jobs[j].status = "failed"
          /\ jobs[j].error = "Unknown job type"
          /\ jobs[j].completed_at # NoTime

\* C18: every return of executor.execute is exactly one of: the processor's
\* own result, the processor's own error, or the timed-out error, which
\* carries nothing of what the processor returns.
C18_ExecuteClassifies ==
    [][\A w \in Workers :
          (pc[w] = "exec" /\ pc'[w] = "write")
          => LET out == outcome'[w]
                 own == process(cur[w].job_type)
             IN  /\ out.kind \in {"ok", "err", "timeout"}
                 /\ out.kind = "ok" => (own.kind = "ok" /\ out.value = own.value)
                 /\ out.kind = "err" => (own.kind = "err" /\ out.value = own.value)
                 /\ out.kind = "timeout"
                      => (out.value = "Job execution timed out"
                          /\ out.value # own.value)]_vars

\* one worker holds a timed-out result, another the processor's own error
C18_Witness ==
    \E w1, w2 \in Workers :
        /\ pc[w1] = "write" /\ outcome[w1].kind = "timeout"
        /\ pc[w2] = "write" /\ outcome[w2] = process(cur[w2].job_type)
        /\ outcome[w2].kind = "err"

\* C19: a failed poll changes no row and marks no job Failed; the worker does
\* not exit: it backs off, goes back to the top of its loop and polls again.
C19_PollFailureBacksOff ==
    /\ [][\A w \in Workers :
            /\ (pc[w] = "poll" /\ pc'[w] = "backoff") => jobs' = jobs
            /\ (pc[w] = "backoff" /\ pc'[w] # "backoff")
                 => (pc'[w] = "check" /\ jobs' = jobs)
            /\ (pc[w] = "check" /\ pc'[w] # "check" /\ running)
                 => pc'[w] = "poll"]_vars
    /\ \A w \in Workers : (pc[w] = "backoff") ~> (pc[w] = "poll")

\* a worker backing off after a failed poll, no job Failed
C19_Witness ==
    \E w \in Workers :
        /\ pc[w] = "backoff"
        /\ \A j \in JobIds : jobs[j].status # "failed"

\* C20: if the store's failures come to an end, every accepted job (here one
\* without retries, so that every outcome is written) eventually is terminal.
C20_TransientErrorsOnlyDelay ==
    <>[][\A w \in Workers : ~StoreError(w)]_vars
      => \A j \in JobIds :
           <>((should_process_job_type(job_types, jobs[j].job_type)
                  /\ jobs[j].max_retries = 0)
                => jobs[j].status \in Terminal)

\* the four settings validate tests are all greater than zero
SettingsPositive(c) ==
    /\ c.worker.worker_threads > 0
    /\ c.worker.batch_size > 0
    /\ c.worker.job_timeout > 0
    /\ c.worker.poll_interval > 0

\* the base configuration passes its own validation, written out
AppValid(a) ==
    /\ a.database_url_ok
    /\ a.redis_url_ok
    /\ a.kafka_brokers > 0
    /\ a.jwt_secret_len >= 32
    /\ a.server_port # 0

\* every enabled cron definition has an expression that parses
CronValid(c) ==
    \A i \in 1..Len(c.worker.cron_jobs) :
        c.worker.cron_jobs[i].enabled => c.worker.cron_jobs[i].cron_ok

\* C22: validate returns an error whenever one of worker_threads, batch_size,
\* job_timeout, poll_interval is zero, and Ok exactly when all four are
\* positive, the base configuration is valid and every enabled cron
\* expression parses.
C22_ValidateRejectsZero ==
    ret.fn = "validate"
    => /\ ~SettingsPositive(cfg) => ret.out.kind = "err"
       /\ ret.out.kind = "ok"
            <=> (SettingsPositive(cfg) /\ AppValid(cfg.app) /\ CronValid(cfg))

\* validate has rejected a configuration whose only fault is poll_interval 0
C22_Witness ==
    /\ ret.fn = "validate"
    /\ ret.out.kind = "err"
    /\ cfg.worker.poll_interval = 0
    /\ cfg.worker.worker_threads > 0
    /\ cfg.worker.batch_size > 0
    /\ cfg.worker.job_timeout > 0
    /\ AppValid(cfg.app)
    /\ CronValid(cfg)

\* C23: the default configuration has worker_threads > 0, poll_interval 5,
\* batch_size 10, and validate returns Ok for it.
C23_DefaultIsValid ==
    \A n \in 1..WorkerThreads :
        (cfg = DefaultWorkerConfig(n) /\ ret.fn = "validate")
        => /\ cfg.worker.worker_threads > 0
           /\ cfg.worker.poll_interval = 5
           /\ cfg.worker.batch_size = 10
           /\ ret.out.kind = "ok"

\* C24: should_process_job_type(t) is true exactly when job_types holds "*"
\* or t; true for every type under the default list, and under
\* {"send_email"} true for send_email and false for process_payment.
C24_FilterByListOrWildcard ==
    ret.fn = "should_process_job_type"
    => LET types == cfg.worker.job_types
           t == ret.job_type
       IN  /\ ret.out <=> ("*" \in types \/ t \in types)
           /\ types = DefaultWorkerSettings(1).job_types => ret.out
           /\ types = {"send_email"} => (ret.out <=> t = "send_email")

\* the filter has said no to process_payment under the list {"send_email"}
C24_Witness ==
    /\ ret.fn = "should_process_job_type"
    /\ cfg.worker.job_types = {"send_email"}
    /\ ret.job_type = "process_payment"
    /\ ret.out = FALSE

\* the worker loops and the auxiliary tasks that have been spawned
SpawnedWorkers == {w \in Workers : pc[w] # "none"}
SpawnedAux == {t \in AuxTasks : aux[t] # "none"}

\* C21: a scheduler whose worker configuration validate rejects (here
\* worker_threads = 0) is never started: the flag stays false and no worker
\* loop and no auxiliary task is spawned.
C21_InvalidConfigAbortsStartup ==
    validate(config).kind = "err"
    => /\ phase = "new"
       /\ ~running
       /\ SpawnedWorkers = {}
       /\ SpawnedAux = {}

\* C25: start() sets the running flag and spawns worker_threads worker loops
\* plus the cron scheduler and the cleanup task: worker_threads + 2 tasks.
C25_StartSpawnsAll ==
    [][(phase = "new" /\ phase' = "started")
       => /\ running'
          /\ {w \in Workers : pc'[w] = "check"} = 1..worker_threads
          /\ \A t \in AuxTasks : aux'[t] = "run"
          /\ Cardinality({w \in Workers : pc'[w] # "none"})
               + Cardinality({t \in AuxTasks : aux'[t] # "none"})
             = worker_threads + 2]_vars

\* a scheduler started with fewer worker loops than the model has room for
C25_Witness ==
    /\ phase = "started"
    /\ running
    /\ worker_threads > 0
    /\ worker_threads < WorkerThreads
    /\ Cardinality(SpawnedWorkers) = worker_threads
    /\ SpawnedAux = AuxTasks

\* a task that makes no further step
Halted(p) == p \in {"none", "stopped", "aborted"}

\* C26: shutdown() clears the running flag and ends every spawned task: once
\* called it returns, and from then on every worker loop, the cron scheduler
\* and the cleanup task have stopped and no job is started or executed.
C26_ShutdownStopsAll ==
    /\ [](phase \in {"stopping", "stopped"} => ~running)
    /\ [](phase = "stopped"
            => /\ \A w \in Workers : Halted(pc[w])
               /\ \A t \in AuxTasks : Halted(aux[t]))
    /\ [][phase = "stopped"
            => (jobs' = jobs /\ attempts' = attempts /\ pc' = pc /\ aux' = aux)]_vars
    /\ (phase = "stopping") ~> (phase = "stopped")

\* shutdown has returned, having aborted a worker loop and both other tasks
C26_Witness ==
    /\ phase = "stopped"
    /\ ~running
    /\ \E w \in Workers : pc[w] = "aborted"
    /\ \A t \in AuxTasks : aux[t] = "aborted"

C30_NoPollWhenFlagFalse ==
    [][\A w \in Workers :
          /\ (pc[w] = "poll" /\ pc'[w] \in {"loop", "check", "backoff"}) => running
          /\ (pc[w] = "loop" /\ pc'[w] = "exec") => running]_vars

\* C28: a worker handles the rows of its batch one after another in the
\* order polled, oldest first: it holds at most one job, and it starts the
\* next row only when the one before has had its outcome handled.
C28_BatchInOrder ==
    /\ [](\A w \in Workers :
            /\ (cur[w] # NoJob) <=> (pc[w] \in {"exec", "write"})
            /\ (outcome[w] # NoOutcome) <=> (pc[w] = "write")
            /\ \A i, k \in 1..Len(batch[w]) :
                   i < k => batch[w][i].created_at < batch[w][k].created_at)
    /\ [][\A w \in Workers :
            (pc[w] = "loop" /\ pc'[w] = "exec")
            => /\ cur[w] = NoJob
               /\ outcome[w] = NoOutcome
               /\ cur'[w] = Head(batch[w])
               /\ batch'[w] = Tail(batch[w])
               /\ \A i \in 1..Len(batch'[w]) :
                      cur'[w].created_at < batch'[w][i].created_at]_vars

\* a worker executing the first row of its batch while the second waits
C28_Witness ==
    \E w \in Workers :
        /\ pc[w] = "exec"
        /\ batch[w] # <<>>
        /\ cur[w].created_at < Head(batch[w]).created_at

\* the JobContext.timeout_duration a worker builds for the job it starts
timeout_duration(w) == job_timeout_duration(config)

\* C29: a job is executed under the timeout its own job type declares.
C29_DeadlineFromJobType ==
    \A w \in Workers :
        (pc[w] = "exec" /\ cur[w].job_type \in DefinedJobTypes)
        => timeout_duration(w) = timeout(cur[w].job_type)

\* C31: a failed or timed-out execution is no fault of the worker: the step
\* that handles it takes the worker on to the next job of the batch (or back
\* to the running check and the next poll), and leaves the executor's error
\* on the job's error field.
C31_FailureRecordedNotPropagated ==
    [][\A w \in Workers :
          (/\ pc[w] = "write"
           /\ pc'[w] # "write"
           /\ outcome[w].kind \in {"err", "timeout"})
          => /\ pc'[w] = (IF batch[w] = <<>> THEN "check" ELSE "loop")
             /\ batch'[w] = batch[w]
             /\ jobs'[cur[w].id].error = outcome[w].value]_vars

\* the job types DefaultProcessor is asked about: those of shared::constants,
\* and one no constant names
ProcessorTypes == JobTypes \cup {"send_email", "process_payment", "generate_report",
                                 "cleanup_data", "no_such_type"}

\* the types DefaultProcessor::process has an arm for
RegisteredTypes == {"send_email", "process_payment", "generate_report", "cleanup_data"}

\* two tables that differ at most in the text of the errors recorded
SameButErrorText(a, b) ==
    \A j \in JobIds : [a[j] EXCEPT !.error = NoValue] = [b[j] EXCEPT !.error = NoValue]

\* C32: DefaultProcessor succeeds for send_email, process_payment,
\* generate_report and cleanup_data and fails for every other type; a job of
\* another type in a wildcard pool is never skipped, is marked started before
\* it is run, comes back from the executor as an error, and gets the store
\* write any other failed execution gets (the timeout's, for one).
C32_UnknownTypeIsAFailure ==
    /\ \A ty \in ProcessorTypes : (process(ty).kind = "ok") <=> (ty \in RegisteredTypes)
    /\ \A ty \in ProcessorTypes \ RegisteredTypes : process(ty).kind = "err"
    /\ "*" \in job_types =>
          /\ skipped = {}
          /\ \A j \in JobIds : attempts[j] > 0 => jobs[j].started_at # NoTime
          /\ \A w \in Workers :
                (pc[w] = "write" /\ cur[w].job_type \notin RegisteredTypes) =>
                    /\ outcome[w].kind = "err"
                    /\ SameButErrorText(
                           WriteOutcome(jobs, cur[w], outcome[w], now),
                           WriteOutcome(jobs, cur[w],
                               [kind |-> "timeout", value |-> "Job execution timed out"],
                               now))

\* a sync_data job of a wildcard pool that was run, failed and is Failed with
\* the processor's error, and another whose failure left a retry
C32_Witness ==
    /\ "*" \in job_types
    /\ \E j \in JobIds :
          /\ jobs[j].job_type = "sync_data"
          /\ jobs[j].status = "failed"
          /\ jobs[j].error = "Unknown job type"
    /\ \E j \in JobIds, w \in Workers :
          /\ pc[w] = "write"
          /\ cur[w].id = j
          /\ cur[w].job_type = "sync_data"
          /\ cur[w].retry_count < cur[w].max_retries

\* C33: the scheduler deletes no job that is Pending or Running: a row that
\* leaves the table in a step was Completed, Failed or Cancelled before it.
C33_OnlyTerminalRemoved ==
    [][\A j \in DOMAIN jobs :
          j \notin DOMAIN jobs' => jobs[j].status \in Terminal]_vars

\* the cleanup task has run its body while a Running job and a terminal job
\* were in the table, and no row is missing
C33_Witness ==
    /\ aux["cleanup"] = "ran"
    /\ DOMAIN jobs = JobIds
    /\ \E j \in JobIds : jobs[j].status = "running"
    /\ \E j \in JobIds : jobs[j].status \in Terminal

\* job j is terminal and has been so for the retention window
Expired(j) ==
    /\ j \in DOMAIN jobs
    /\ jobs[j].status \in Terminal
    /\ now - jobs[j].completed_at >= cleanup_after

\* C34: while the scheduler runs, every job that is terminal and older than
\* the retention window is eventually removed from the store.
C34_ExpiredEventuallyRemoved ==
    \A j \in JobIds : [](Expired(j) => <>(j \notin DOMAIN jobs))

\* C35: a worker enters the executor for a job only in the step in which its
\* mark_started write for that job succeeded, and the processor is invoked
\* only by a worker that did so; when the write fails on an accepted job the
\* store, the attempts and the outcomes are left as they were and the worker
\* goes on with the rest of the batch.
C35_ExecuteOnlyAfterMarkStarted ==
    [][\A w \in Workers :
          /\ (pc'[w] = "exec" /\ pc[w] # "exec") =>
                LET j == cur'[w].id IN
                  /\ cur'[w] = Head(batch[w])
                  /\ jobs'[j].status = "running"
                  /\ jobs'[j].started_at = now
                  /\ attempts'[j] = attempts[j]
          /\ (pc[w] = "exec" /\ pc'[w] # "exec") =>
                /\ pc'[w] = "write"
                /\ jobs[cur[w].id].started_at # NoTime
                /\ attempts'[cur[w].id] = attempts[cur[w].id] + 1
          /\ (/\ pc[w] = "loop"
              /\ batch'[w] # batch[w]
              /\ pc'[w] # "exec"
              /\ "*" \in job_types \/ Head(batch[w]).job_type \in job_types) =>
                /\ jobs' = jobs
                /\ attempts' = attempts
                /\ outcome' = outcome
                /\ batch'[w] = Tail(batch[w])
                /\ pc'[w] = (IF Tail(batch[w]) = <<>> THEN "check" ELSE "loop")]_vars

\* the older job of a two-row batch is accepted by the filter, still Pending
\* and never run, while the worker that polled both is executing the newer
\* one: its mark_started for the older one failed and it moved on
C35_Witness ==
    /\ batch_size = 2
    /\ jobs[1].status = "pending"
    /\ jobs[1].scheduled_at = 0
    /\ attempts[1] = 0
    /\ "*" \in job_types \/ jobs[1].job_type \in job_types
    /\ \E w \in Workers :
          /\ pc[w] = "exec"
          /\ cur[w].id = 2
          /\ cur[w].scheduled_at = 0
          /\ jobs[2].started_at # NoTime

\* C36: an execution gets at most one outcome write, never both: a step that
\* makes a row Completed or Failed is the one write of a worker holding the
\* executor's result for that row, it changes no other row, and it is
\* mark_completed only for a success and mark_failed only for an error or a
\* timeout of a job polled with retry_count >= max_retries; after it the
\* worker holds no result, so no second write follows.
C36_OneOutcomeWrite ==
    [][\A j \in JobIds :
          (jobs'[j] # jobs[j] /\ jobs'[j].status \in {"completed", "failed"}) =>
             /\ \A k \in JobIds \ {j} : jobs'[k] = jobs[k]
             /\ \E w \in Workers :
                  /\ pc[w] = "write"
                  /\ cur[w].id = j
                  /\ pc'[w] # "write"
                  /\ outcome'[w] = NoOutcome
                  /\ cur'[w] = NoJob
                  /\ \/ /\ outcome[w].kind = "ok"
                        /\ jobs'[j] = [jobs[j] EXCEPT !.status = "completed",
                                                      !.result = outcome[w].value,
                                                      !.completed_at = now]
                     \/ /\ outcome[w].kind \in {"err", "timeout"}
                        /\ cur[w].retry_count >= cur[w].max_retries
                        /\ jobs'[j] = [jobs[j] EXCEPT !.status = "failed",
                                                      !.error = outcome[w].value,
                                                      !.retry_count = @ + 1,
                                                      !.completed_at = now]]_vars

\* one job written Completed after a success and one written Failed after an
\* error, each run once, and a third case aside: no worker holds a result
C36_Witness ==
    /\ \E j \in JobIds :
          /\ jobs[j].status = "completed"
          /\ jobs[j].result = "sent"
          /\ jobs[j].error = NoValue
          /\ attempts[j] = 1
    /\ \E j \in JobIds :
          /\ jobs[j].status = "failed"
          /\ jobs[j].error = "Unknown job type"
          /\ jobs[j].result = NoValue
          /\ attempts[j] = 1
    /\ \A w \in Workers : outcome[w] = NoOutcome

\* C37: a Pending job that is due and whose type the pool's allow-list takes
\* is eventually started, whatever older Pending jobs of other types are in
\* the store.
C37_NoStarvationByOtherTypes ==
    \A j \in JobIds :
        []((/\ jobs[j].status = "pending"
            /\ jobs[j].scheduled_at <= now
            /\ should_process_job_type(job_types, jobs[j].job_type))
           => <>(jobs[j].started_at # NoTime))

\* the worker loops that are alive: spawned, and neither ended nor aborted
LiveWorkers == {w \in DOMAIN pc : pc[w] \notin {"none", "stopped", "aborted"}}

\* C38: in any sequence of start() and shutdown() calls the number of live
\* worker loops never exceeds the configured worker_threads.
C38_LiveWorkersBounded == Cardinality(LiveWorkers) <= worker_threads

\* the call of retry_with_backoff is over
RetryOver == retry.pc \in {"returned", "panicked"}

\* C39: retry_with_backoff with max_attempts = n, for every n >= 0: the
\* operation is invoked at most n times; the first success is returned with no
\* further invocation or sleep; every sleep lies between two attempts, none
\* after the last; and after n failures the call returns the error of the
\* last attempt.
C39_RetryWithBackoff ==
    retry.pc # "idle" =>
        /\ retry.calls <= retry.max_attempts
        /\ retry.sleeps <= retry.calls
        /\ retry.sleeps > 0 => retry.slept_after < retry.max_attempts
        /\ RetryOver =>
              /\ retry.pc = "returned"
              /\ retry.out.kind = "ok" =>
                    /\ retry.calls = retry.out.value
                    /\ retry.sleeps = retry.calls - 1
              /\ retry.out.kind = "err" =>
                    /\ retry.calls = retry.max_attempts
                    /\ retry.sleeps = retry.max_attempts - 1
                    /\ retry.out.value = retry.max_attempts

====
